---- MODULE Spec2Model ----
(***************************************************************************)
(* Model of the clink output normalisation layer:                          *)
(*   - CopilotPlaintextParser.parse      (clink/parsers/copilot.py)        *)
(*   - QwenStreamJsonParser.parse        (clink/parsers/qwen.py)           *)
(*   - CopilotAgent._recover_from_error  (clink/agents/copilot.py)         *)
(*                                                                         *)
(* Text is a sequence of tokens.  A token is one character (" ", "\n",     *)
(* "x", ...) or the complete text of one JSON object, written "{name}";    *)
(* json_loads gives the object such a text decodes to.  JSON values are    *)
(* records [t, v] with t the Python type of the decoded value; a dict is   *)
(* the sequence of its <<key, value>> pairs in insertion order.            *)
(***************************************************************************)
EXTENDS Integers, Sequences, FiniteSets, TLC

VARIABLES
    op,                      \* the operation this run performs
    stdout, stderr,          \* captured text handed to the operation
    returncode, sanitized_command, duration_seconds, output_file_content,
    parser_name,             \* name of the agent's configured parser
    pc,                      \* position inside the operation
    lines, idx,              \* QwenStreamJsonParser.parse: the scan loop
    scan,                    \* events and the remembered messages
    parse_calls,             \* number of BaseParser.parse invocations
    response,                \* what parse returned or raised
    agent_output             \* what _recover_from_error returned

vars == <<op, stdout, stderr, returncode, sanitized_command,
          duration_seconds, output_file_content, parser_name, pc, lines,
          idx, scan, parse_calls, response, agent_output>>

\* ---------------------------------------------------------------- bounds
MaxLines == 3
MaxStrLen == 2

\* ------------------------------------------------------------ str methods
Whitespace == {" ", "\n"}

Min(S) == CHOOSE m \in S : \A n \in S : m <= n
Max(S) == CHOOSE m \in S : \A n \in S : m >= n

\* str.strip(): drop leading and trailing whitespace
strip(s) ==
    LET keep == {i \in 1..Len(s) : s[i] \notin Whitespace}
    IN  IF keep = {} THEN <<>> ELSE SubSeq(s, Min(keep), Max(keep))

\* str.splitlines(): split at line breaks, no empty piece after a final one
RECURSIVE splitlines(_)
splitlines(s) ==
    IF Len(s) = 0 THEN <<>>
    ELSE LET nl == {i \in 1..Len(s) : s[i] = "\n"}
         IN  IF nl = {} THEN <<s>>
             ELSE <<SubSeq(s, 1, Min(nl) - 1)>>
                      \o splitlines(SubSeq(s, Min(nl) + 1, Len(s)))

\* sep.join(parts) for parts that are all str
RECURSIVE join(_, _)
join(sep, parts) ==
    IF Len(parts) = 0 THEN <<>>
    ELSE IF Len(parts) = 1 THEN parts[1]
    ELSE parts[1] \o sep \o join(sep, Tail(parts))

\* ------------------------------------------------------------ JSON values
JStr(s)  == [t |-> "str",  v |-> s]
JInt(n)  == [t |-> "int",  v |-> n]
JBool(b) == [t |-> "bool", v |-> b]
JDict(p) == [t |-> "dict", v |-> p]
JList(q) == [t |-> "list", v |-> q]
None     == [t |-> "None", v |-> <<>>]

\* isinstance(x, str | dict | list)
IsStr(x)  == x.t = "str"
IsDict(x) == x.t = "dict"
IsList(x) == x.t = "list"

\* Python truth value of x
Truthy(x) ==
    CASE x.t = "None" -> FALSE
      [] x.t = "bool" -> x.v
      [] x.t = "int"  -> x.v # 0
      [] OTHER        -> Len(x.v) > 0

\* key in d, d.get(key, default), d.get(key)
Has(d, key) == \E i \in 1..Len(d.v) : d.v[i][1] = key
GetOr(d, key, default) ==
    IF Has(d, key)
    THEN d.v[CHOOSE i \in 1..Len(d.v) : d.v[i][1] = key][2]
    ELSE default
Get(d, key) == GetOr(d, key, None)

\* metadata[key] = value
SetItem(md, key, value) ==
    [k \in (DOMAIN md) \cup {key} |-> IF k = key THEN value ELSE md[k]]

\* ------------------------------------------------- stream-json test data
\* The JSON object each "{name}" token is the text of.
P(key, value) == <<key, value>>

Text(w) == JStr(<<w>>)

EvSys1 ==
    JDict(<<P("type", Text("system")), P("session_id", Text("sess-1")),
            P("model", Text("qwen-coder")),
            P("qwen_code_version", Text("0.9.0"))>>)
EvSys2 ==
    JDict(<<P("type", Text("system")), P("session_id", Text("sess-2"))>>)
EvUser ==
    JDict(<<P("type", Text("user"))>>)
EvAsstThink ==
    JDict(<<P("type", Text("assistant")),
            P("message", JDict(<<P("content", JList(<<
                JDict(<<P("type", Text("thinking")),
                        P("thinking", JStr(<<"hm", " ">>))>>),
                JDict(<<P("type", Text("tool_use"))>>),
                JDict(<<P("type", Text("text")),
                        P("text", JStr(<<" ", "42", "\n">>))>>)>>))>>))>>)
EvAsstBlank ==
    JDict(<<P("type", Text("assistant")),
            P("message", JDict(<<P("content", JList(<<
                Text("text"),
                JDict(<<P("type", Text("text")),
                        P("text", JStr(<<" ">>))>>),
                JDict(<<P("type", Text("text")), P("text", JInt(5))>>),
                JDict(<<P("type", Text("thinking"))>>)>>))>>))>>)
EvAsstBad ==
    JDict(<<P("type", Text("assistant")), P("message", JInt(7))>>)
EvResOk ==
    JDict(<<P("type", Text("result")), P("is_error", JBool(FALSE)),
            P("num_turns", JInt(1)), P("duration_ms", JInt(1000)),
            P("result", JStr(<<" ", "ok", "\n">>)),
            P("usage", JDict(<<P("input_tokens", JInt(100))>>)),
            P("modelUsage", JDict(<<P("qwen-coder", JDict(<<>>)),
                                    P("qwen-max", JDict(<<>>))>>)),
            P("permission_denials",
              JList(<<JDict(<<P("tool_name", Text("bash"))>>)>>))>>)
EvResNone ==
    JDict(<<P("type", Text("result")), P("is_error", JBool(TRUE)),
            P("error", Text("oops")), P("result", JInt(5)),
            P("usage", Text("u")), P("modelUsage", JList(<<>>)),
            P("permission_denials", JDict(<<>>))>>)
EvResErr ==
    JDict(<<P("type", Text("result")), P("is_error", JBool(TRUE)),
            P("result", JStr(<<" ">>)),
            P("error", JDict(<<P("message", Text("boom")),
                               P("code", JInt(429))>>))>>)
EvResErrInt ==
    JDict(<<P("type", Text("result")), P("is_error", JBool(TRUE)),
            P("error", JDict(<<P("message", JInt(123))>>))>>)
EvResErrEmpty ==
    JDict(<<P("type", Text("result")), P("is_error", JBool(TRUE)),
            P("error", JDict(<<P("message", JStr(<<>>))>>))>>)
EvResErrNoMsg ==
    JDict(<<P("type", Text("result")), P("is_error", Text("yes")),
            P("error", JDict(<<>>))>>)

JsonText ==
    [tok \in {"{sys1}", "{sys2}", "{user}", "{asst_think}",
              "{asst_blank}", "{asst_bad}", "{res_ok}", "{res_none}",
              "{res_err}", "{res_err_int}", "{res_err_empty}",
              "{res_err_nomsg}"} |->
        CASE tok = "{sys1}"          -> EvSys1
          [] tok = "{sys2}"          -> EvSys2
          [] tok = "{user}"          -> EvUser
          [] tok = "{asst_think}"    -> EvAsstThink
          [] tok = "{asst_blank}"    -> EvAsstBlank
          [] tok = "{asst_bad}"      -> EvAsstBad
          [] tok = "{res_ok}"        -> EvResOk
          [] tok = "{res_none}"      -> EvResNone
          [] tok = "{res_err}"       -> EvResErr
          [] tok = "{res_err_int}"   -> EvResErrInt
          [] tok = "{res_err_empty}" -> EvResErrEmpty
          [] tok = "{res_err_nomsg}" -> EvResErrNoMsg]

\* The lines a captured stream is made of: blank, banner text, a JSON
\* object followed by garbage, and one line per JSON object text.
StreamLines ==
    << <<" ">>, <<"x">>, <<"{res_ok}", "x">>,
       <<" ", "{res_ok}", " ">>, <<"{res_none}">>, <<"{res_err}">>,
       <<"{res_err_int}">>, <<"{res_err_empty}">>, <<"{res_err_nomsg}">>,
       <<"{asst_think}">>, <<"{asst_blank}">>, <<"{asst_bad}">>,
       <<"{sys1}">>, <<" ", "{sys2}">>, <<"{user}">> >>

StreamStderr == { <<>>, <<" ">>, <<" ", "e", "\n">> }

\* All sequences over S of length at most n
RECURSIVE SeqsUpTo(_, _)
SeqsUpTo(S, n) ==
    IF n = 0 THEN { <<>> }
    ELSE LET shorter == SeqsUpTo(S, n - 1)
         IN  shorter \cup { Append(q, e) : q \in shorter, e \in S }

\* line.startswith("{")
startswith_brace(line) ==
    Len(line) > 0 /\ line[1] \in (DOMAIN JsonText) \cup {"{"}

\* json.loads(line) succeeds: the line is exactly one JSON object text
json_decodes(line) == Len(line) = 1 /\ line[1] \in DOMAIN JsonText

\* json.loads(line)
json_loads(line) == JsonText[line[1]]

\* ------------------------------------------------------------- outcomes
Return(content, metadata) ==
    [kind |-> "return", content |-> content, metadata |-> metadata]
Raise(exception) ==
    [kind |-> exception, content |-> <<>>, metadata |-> <<>>]
Pending == [kind |-> "pending", content |-> <<>>, metadata |-> <<>>]

CopilotPlaceholder ==
    <<"Copilot CLI returned no textual result. Raw stderr was preserved for troubleshooting.">>
QwenPlaceholder ==
    <<"Qwen CLI returned no textual result. Raw stderr was preserved for troubleshooting.">>

\* Variant of copilot_parse that returns stdout as captured, untrimmed
copilot_parse_untrimmed(so, se) ==
    LET stderr_text == strip(se)
    IN  IF Len(strip(so)) = 0
        THEN IF Len(stderr_text) > 0
             THEN Return(CopilotPlaceholder,
                         SetItem(<<>>, "stderr", JStr(stderr_text)))
             ELSE Raise("ParserError")
        ELSE Return(so,
                    IF Len(stderr_text) > 0
                    THEN SetItem(<<>>, "stderr", JStr(stderr_text))
                    ELSE <<>>)

\* ------------------------------------------ CopilotPlaintextParser.parse
copilot_parse(so, se) ==
    LET content     == strip(so)
        stderr_text == strip(se)
    IN  IF Len(content) = 0
        THEN IF Len(stderr_text) > 0
             THEN Return(CopilotPlaceholder,
                         SetItem(<<>>, "stderr", JStr(stderr_text)))
             ELSE Raise("ParserError")
        ELSE Return(content,
                    IF Len(stderr_text) > 0
                    THEN SetItem(<<>>, "stderr", JStr(stderr_text))
                    ELSE <<>>)

\* ------------------------------------- CopilotAgent._recover_from_error
NoOutput == [kind |-> "None"]

\* Variant of recover_from_error that puts stderr before stdout
recover_stderr_first(rc, so, se, cmd, dur, ofc, pname) ==
    LET parts    == SelectSeq(<<se, so>>, LAMBDA part : Len(part) > 0)
        combined == strip(join(<<"\n">>, parts))
        metadata == SetItem(SetItem(<<>>, "cli_error_recovered", JBool(TRUE)),
                            "cli_returncode", JInt(rc))
    IN  IF Len(combined) = 0
        THEN NoOutput
        ELSE [kind |-> "AgentOutput",
              parsed |-> Return(combined, metadata),
              sanitized_command |-> cmd,
              returncode |-> rc,
              stdout |-> so,
              stderr |-> se,
              duration_seconds |-> dur,
              parser_name |-> pname,
              output_file_content |-> ofc]

\* Variant of recover_from_error that names the plaintext parser whatever
\* parser the agent is configured with
recover_own_parser(rc, so, se, cmd, dur, ofc, pname) ==
    LET parts    == SelectSeq(<<so, se>>, LAMBDA part : Len(part) > 0)
        combined == strip(join(<<"\n">>, parts))
        metadata == SetItem(SetItem(<<>>, "cli_error_recovered", JBool(TRUE)),
                            "cli_returncode", JInt(rc))
    IN  IF Len(combined) = 0
        THEN NoOutput
        ELSE [kind |-> "AgentOutput",
              parsed |-> Return(combined, metadata),
              sanitized_command |-> cmd,
              returncode |-> rc,
              stdout |-> so,
              stderr |-> se,
              duration_seconds |-> dur,
              parser_name |-> "copilot_plaintext",
              output_file_content |-> ofc]

recover_from_error(rc, so, se, cmd, dur, ofc, pname) ==
    LET parts    == SelectSeq(<<so, se>>, LAMBDA part : Len(part) > 0)
        combined == strip(join(<<"\n">>, parts))
        metadata == SetItem(SetItem(<<>>, "cli_error_recovered", JBool(TRUE)),
                            "cli_returncode", JInt(rc))
    IN  IF Len(combined) = 0
        THEN NoOutput
        ELSE [kind |-> "AgentOutput",
              parsed |-> Return(combined, metadata),
              sanitized_command |-> cmd,
              returncode |-> rc,
              stdout |-> so,
              stderr |-> se,
              duration_seconds |-> dur,
              parser_name |-> pname,
              output_file_content |-> ofc]

\* ------------------------------------------- QwenStreamJsonParser.parse
\* x == w for a decoded value x and a str literal w
StrEq(x, w) == IsStr(x) /\ x.v = <<w>>

\* lines = [line.strip() for line in stdout.splitlines() if line.strip()]
stripped_lines(so) ==
    LET raw == splitlines(so)
        all == [i \in 1..Len(raw) |-> strip(raw[i])]
    IN  SelectSeq(all, LAMBDA line : Len(line) > 0)

NoScan ==
    [events |-> <<>>, result_message |-> None,
     last_assistant_message |-> None, system_message |-> None]

\* Variant of scan_line that logs the events of the three known types only
scan_line_known_only(st, line) ==
    IF ~startswith_brace(line) THEN st
    ELSE IF ~json_decodes(line) THEN st
    ELSE LET event      == json_loads(line)
             event_type == Get(event, "type")
             appended   == [st EXCEPT !.events = Append(@, event)]
         IN  IF StrEq(event_type, "result")
             THEN [appended EXCEPT !.result_message = event]
             ELSE IF StrEq(event_type, "assistant")
             THEN [appended EXCEPT !.last_assistant_message = event]
             ELSE IF StrEq(event_type, "system")
             THEN [appended EXCEPT !.system_message = event]
             ELSE st

\* Variant of scan_line that keeps the first event of each type
scan_line_first_wins(st, line) ==
    IF ~startswith_brace(line) THEN st
    ELSE IF ~json_decodes(line) THEN st
    ELSE LET event      == json_loads(line)
             event_type == Get(event, "type")
             appended   == [st EXCEPT !.events = Append(@, event)]
             keep(old)  == IF IsDict(old) THEN old ELSE event
         IN  IF StrEq(event_type, "result")
             THEN [appended EXCEPT !.result_message = keep(@)]
             ELSE IF StrEq(event_type, "assistant")
             THEN [appended EXCEPT !.last_assistant_message = keep(@)]
             ELSE IF StrEq(event_type, "system")
             THEN [appended EXCEPT !.system_message = keep(@)]
             ELSE appended

\* one iteration of `for line in lines`
scan_line(st, line) ==
    IF ~startswith_brace(line) THEN st
    ELSE IF ~json_decodes(line) THEN st
    ELSE LET event      == json_loads(line)
             event_type == Get(event, "type")
             appended   == [st EXCEPT !.events = Append(@, event)]
         IN  IF StrEq(event_type, "result")
             THEN [appended EXCEPT !.result_message = event]
             ELSE IF StrEq(event_type, "assistant")
             THEN [appended EXCEPT !.last_assistant_message = event]
             ELSE IF StrEq(event_type, "system")
             THEN [appended EXCEPT !.system_message = event]
             ELSE appended

\* the text one content block contributes to text_parts
block_parts(block) ==
    IF ~IsDict(block) THEN <<>>
    ELSE LET block_type == Get(block, "type")
         IN  IF StrEq(block_type, "text")
             THEN LET text == Get(block, "text")
                  IN  IF IsStr(text) /\ Len(strip(text.v)) > 0
                      THEN <<strip(text.v)>> ELSE <<>>
             ELSE IF StrEq(block_type, "thinking")
             THEN LET thinking == Get(block, "thinking")
                  IN  IF IsStr(thinking) /\ Len(strip(thinking.v)) > 0
                      THEN << <<"[Thinking: ">> \o strip(thinking.v)
                                                  \o <<"]">> >>
                      ELSE <<>>
             ELSE <<>>

RECURSIVE collect_text_parts(_)
collect_text_parts(blocks) ==
    IF Len(blocks) = 0 THEN <<>>
    ELSE block_parts(Head(blocks)) \o collect_text_parts(Tail(blocks))

_extract_assistant_text(assistant_msg) ==
    LET message == Get(assistant_msg, "message")
    IN  IF ~IsDict(message) THEN None
        ELSE LET content_blocks == Get(message, "content")
             IN  IF ~IsList(content_blocks) THEN None
                 ELSE LET text_parts == collect_text_parts(content_blocks.v)
                      IN  IF Len(text_parts) > 0
                          THEN JStr(join(<<"\n", "\n">>, text_parts))
                          ELSE None

\* metadata harvested from the system message
system_metadata(md, system_message) ==
    IF ~Truthy(system_message) THEN md
    ELSE LET m1 == SetItem(md, "session_id", Get(system_message, "session_id"))
             m2 == SetItem(m1, "model", Get(system_message, "model"))
         IN  IF Has(system_message, "qwen_code_version")
             THEN SetItem(m2, "cli_version",
                          Get(system_message, "qwen_code_version"))
             ELSE m2

\* metadata harvested from the result message
result_metadata(md, result_message) ==
    IF ~Truthy(result_message) THEN md
    ELSE LET m1 == SetItem(md, "is_error",
                           GetOr(result_message, "is_error", JBool(FALSE)))
             m2 == SetItem(m1, "num_turns", Get(result_message, "num_turns"))
             m3 == SetItem(m2, "duration_ms",
                           Get(result_message, "duration_ms"))
             m4 == SetItem(m3, "duration_api_ms",
                           Get(result_message, "duration_api_ms"))
             usage == Get(result_message, "usage")
             m5 == IF IsDict(usage) THEN SetItem(m4, "usage", usage) ELSE m4
             model_usage == Get(result_message, "modelUsage")
             m6 == IF IsDict(model_usage) /\ Truthy(model_usage)
                   THEN SetItem(SetItem(m5, "model_usage", model_usage),
                                "model_used", Text(model_usage.v[1][1]))
                   ELSE m5
             permission_denials == Get(result_message, "permission_denials")
             m7 == IF IsList(permission_denials) /\ Truthy(permission_denials)
                   THEN SetItem(m6, "permission_denials", permission_denials)
                   ELSE m6
             error_info == Get(result_message, "error")
         IN  IF Truthy(Get(result_message, "is_error")) /\ IsDict(error_info)
             THEN SetItem(m7, "error", error_info)
             ELSE m7

\* Variant of collect_errors that never reads the message
collect_errors_unknown(result_message) ==
    IF ~Truthy(result_message) THEN <<>>
    ELSE LET error_info == Get(result_message, "error")
         IN  IF Truthy(Get(result_message, "is_error")) /\ IsDict(error_info)
             THEN <<Text("Unknown error")>>
             ELSE <<>>

\* the errors list after the result message was inspected
collect_errors(result_message) ==
    IF ~Truthy(result_message) THEN <<>>
    ELSE LET error_info == Get(result_message, "error")
         IN  IF Truthy(Get(result_message, "is_error")) /\ IsDict(error_info)
             THEN <<GetOr(error_info, "message", Text("Unknown error"))>>
             ELSE <<>>

\* if stderr and stderr.strip(): metadata["stderr"] = stderr.strip()
attach_stderr(md, se) ==
    IF Len(se) > 0 /\ Len(strip(se)) > 0
    THEN SetItem(md, "stderr", JStr(strip(se)))
    ELSE md

\* "\n".join(errors): TypeError unless every item is a str
join_errors(errors, md) ==
    IF \A i \in 1..Len(errors) : IsStr(errors[i])
    THEN Return(join(<<"\n">>, [i \in 1..Len(errors) |-> errors[i].v]), md)
    ELSE Raise("TypeError")

\* Variant of select_content whose last resort tests stderr untrimmed
select_content_raw_stderr(st, se) ==
    LET md0 == SetItem(<<>>, "raw_events", JList(st.events))
        md1 == system_metadata(md0, st.system_message)
        metadata == result_metadata(md1, st.result_message)
        errors == collect_errors(st.result_message)
        result_text == Get(st.result_message, "result")
        content == _extract_assistant_text(st.last_assistant_message)
    IN  IF Truthy(st.result_message) /\ IsStr(result_text)
           /\ Len(strip(result_text.v)) > 0
        THEN Return(strip(result_text.v), attach_stderr(metadata, se))
        ELSE IF Truthy(st.last_assistant_message) /\ Truthy(content)
        THEN Return(content.v, attach_stderr(metadata, se))
        ELSE IF Len(errors) > 0
        THEN join_errors(errors, attach_stderr(metadata, se))
        ELSE IF Len(se) > 0
        THEN Return(QwenPlaceholder, attach_stderr(metadata, se))
        ELSE Raise("ParserError")

\* everything parse does after the scan loop
select_content(st, se) ==
    LET md0 == SetItem(<<>>, "raw_events", JList(st.events))
        md1 == system_metadata(md0, st.system_message)
        metadata == result_metadata(md1, st.result_message)
        errors == collect_errors(st.result_message)
        result_text == Get(st.result_message, "result")
        content == _extract_assistant_text(st.last_assistant_message)
    IN  IF Truthy(st.result_message) /\ IsStr(result_text)
           /\ Len(strip(result_text.v)) > 0
        THEN Return(strip(result_text.v), attach_stderr(metadata, se))
        ELSE IF Truthy(st.last_assistant_message) /\ Truthy(content)
        THEN Return(content.v, attach_stderr(metadata, se))
        ELSE IF Len(errors) > 0
        THEN join_errors(errors, attach_stderr(metadata, se))
        ELSE IF Len(se) > 0 /\ Len(strip(se)) > 0
        THEN Return(QwenPlaceholder, attach_stderr(metadata, se))
        ELSE Raise("ParserError")

\* --------------------------------------------------------------- inputs
PlainAlphabet == {" ", "\n", "a"}
PlainText == SeqsUpTo(PlainAlphabet, MaxStrLen)

StreamIndex == SeqsUpTo(1..Len(StreamLines), MaxLines)
StreamText(ix) == join(<<"\n">>, [i \in 1..Len(ix) |-> StreamLines[ix[i]]])

ParserNames == {"copilot_plaintext", "qwen_stream_json"}
ReturnCodes == {1, -9}
Commands == { <<"copilot">>, <<"copilot", "--silent">> }
Durations == {0, 3}
FileContents == { None, Text("out") }

NoCall ==
    /\ returncode = 0
    /\ sanitized_command = <<>>
    /\ duration_seconds = 0
    /\ output_file_content = None

Init ==
    /\ pc = "start"
    /\ lines = <<>>
    /\ idx = 0
    /\ scan = NoScan
    /\ parse_calls = 0
    /\ response = Pending
    /\ agent_output = NoOutput
    /\ \/ /\ op = "copilot_parse"
          /\ stdout \in PlainText
          /\ stderr \in PlainText
          /\ parser_name = "copilot_plaintext"
          /\ NoCall
       \/ /\ op = "qwen_parse"
          /\ \E ix \in StreamIndex : stdout = StreamText(ix)
          /\ stderr \in StreamStderr
          /\ parser_name = "qwen_stream_json"
          /\ NoCall
       \/ /\ op = "recover"
          /\ stdout \in PlainText
          /\ stderr \in PlainText
          /\ parser_name \in ParserNames
          /\ returncode \in ReturnCodes
          /\ sanitized_command \in Commands
          /\ duration_seconds \in Durations
          /\ output_file_content \in FileContents

inputs == <<op, stdout, stderr, returncode, sanitized_command,
            duration_seconds, output_file_content, parser_name>>

\* -------------------------------------------------------------- actions
CopilotParse ==
    /\ op = "copilot_parse" /\ pc = "start"
    /\ response' = copilot_parse(stdout, stderr)
    /\ parse_calls' = parse_calls + 1
    /\ pc' = "done"
    /\ UNCHANGED <<inputs, lines, idx, scan, agent_output>>

RecoverFromError ==
    /\ op = "recover" /\ pc = "start"
    /\ agent_output' = recover_from_error(returncode, stdout, stderr,
                           sanitized_command, duration_seconds,
                           output_file_content, parser_name)
    /\ pc' = "done"
    /\ UNCHANGED <<inputs, lines, idx, scan, parse_calls, response>>

\* qwen.py 25-33: the empty check, the line split, the loop's start
QwenStart ==
    /\ op = "qwen_parse" /\ pc = "start"
    /\ parse_calls' = parse_calls + 1
    /\ IF Len(strip(stdout)) = 0
       THEN /\ response' = Raise("ParserError")
            /\ pc' = "done"
            /\ UNCHANGED <<lines, idx>>
       ELSE /\ lines' = stripped_lines(stdout)
            /\ idx' = 1
            /\ pc' = "scan"
            /\ UNCHANGED response
    /\ UNCHANGED <<inputs, scan, agent_output>>

\* qwen.py 35-51: one iteration of the loop
QwenScanLine ==
    /\ op = "qwen_parse" /\ pc = "scan" /\ idx <= Len(lines)
    /\ scan' = scan_line(scan, lines[idx])
    /\ idx' = idx + 1
    /\ UNCHANGED <<inputs, pc, lines, parse_calls, response, agent_output>>

\* qwen.py 53-120: metadata and content selection
QwenSelect ==
    /\ op = "qwen_parse" /\ pc = "scan" /\ idx > Len(lines)
    /\ response' = select_content(scan, stderr)
    /\ pc' = "done"
    /\ UNCHANGED <<inputs, lines, idx, scan, parse_calls, agent_output>>

Next ==
    \/ CopilotParse
    \/ RecoverFromError
    \/ QwenStart
    \/ QwenScanLine
    \/ QwenSelect

Spec == Init /\ [][Next]_vars

\* ============================================================ properties
\* Trimming, stated by recursion on the ends of the text
RECURSIVE DropLeading(_)
DropLeading(s) ==
    IF Len(s) > 0 /\ Head(s) \in {" ", "\n"} THEN DropLeading(Tail(s)) ELSE s
RECURSIVE DropTrailing(_)
DropTrailing(s) ==
    IF Len(s) > 0 /\ s[Len(s)] \in {" ", "\n"}
    THEN DropTrailing(SubSeq(s, 1, Len(s) - 1)) ELSE s
Trimmed(s) == DropTrailing(DropLeading(s))

QwenDone == op = "qwen_parse" /\ pc = "done"
CopilotDone == op = "copilot_parse" /\ pc = "done"
RecoverDone == op = "recover" /\ pc = "done"
Returned == response.kind = "return"

\* The decoded events of the stream, in line order
DecodedEvents ==
    LET ls   == stripped_lines(stdout)
        good == SelectSeq(ls, LAMBDA l : startswith_brace(l) /\ json_decodes(l))
    IN  [i \in 1..Len(good) |-> json_loads(good[i])]

TypeIs(ev, w) == Has(ev, "type") /\ StrEq(Get(ev, "type"), w)

\* The last event of a type in a sequence of events, None without one
LastOfType(evs, w) ==
    LET at == {i \in 1..Len(evs) : TypeIs(evs[i], w)}
    IN  IF at = {} THEN None ELSE evs[Max(at)]

\* Has the event a string `result` field that is non-empty after trimming
HasResultText(ev) ==
    /\ IsDict(ev) /\ Has(ev, "result")
    /\ IsStr(Get(ev, "result")) /\ Len(Trimmed(Get(ev, "result").v)) > 0

\* Does the assistant event yield text
HasAssistantText(ev) == IsDict(ev) /\ IsStr(_extract_assistant_text(ev))

\* The error messages recorded from the result event
RecordedErrors(ev) == IF IsDict(ev) THEN collect_errors(ev) ELSE <<>>

\* C1: with non-empty trimmed stdout the content comes from the first
\* satisfied branch of: result text, assistant text, recorded error
\* messages joined by newlines, placeholder for non-empty stderr, and
\* otherwise parse fails with ParserError.
C1_PriorityOrder ==
    (QwenDone /\ Len(Trimmed(stdout)) > 0) =>
        LET rm == scan.result_message
            am == scan.last_assistant_message
            errs == RecordedErrors(rm)
        IN  IF HasResultText(rm)
            THEN Returned /\ response.content = Trimmed(Get(rm, "result").v)
            ELSE IF HasAssistantText(am)
            THEN Returned
                 /\ response.content = _extract_assistant_text(am).v
            ELSE IF Len(errs) > 0
            THEN /\ Returned
                 /\ \A i \in 1..Len(errs) : IsStr(errs[i])
                 /\ response.content =
                        join(<<"\n">>, [i \in 1..Len(errs) |-> errs[i].v])
            ELSE IF Len(Trimmed(stderr)) > 0
            THEN Returned /\ response.content = QwenPlaceholder
            ELSE response.kind = "ParserError"

\* C2: on every successful return raw_events is exactly the decoded
\* brace lines of the stream in order, duplicates kept, and the scan of
\* the lines raises nothing.
C2_RawEvents ==
    /\ (op = "qwen_parse" /\ pc = "scan") => response = Pending
    /\ (QwenDone /\ Returned) =>
          /\ "raw_events" \in DOMAIN response.metadata
          /\ response.metadata["raw_events"] = JList(DecodedEvents)

C2_Witness ==
    /\ QwenDone /\ Returned
    /\ \E i \in 1..Len(lines) : ~startswith_brace(lines[i])
    /\ \E i \in 1..Len(lines) :
          startswith_brace(lines[i]) /\ ~json_decodes(lines[i])
    /\ Len(response.metadata["raw_events"].v) = 1

\* The metadata without the raw event log
Harvested(md) == [k \in (DOMAIN md) \ {"raw_events"} |-> md[k]]

\* C3: the result, assistant and system events parse uses are the last
\* decoded events of their types; the outcome is the one of a stream
\* that holds those last events only.
C3_LastEventWins ==
    (op = "qwen_parse" /\ Len(Trimmed(stdout)) > 0
        /\ (pc = "done" \/ (pc = "scan" /\ idx > Len(lines)))) =>
        LET evs == DecodedEvents
            last == [events |-> <<>>,
                     result_message |-> LastOfType(evs, "result"),
                     last_assistant_message |-> LastOfType(evs, "assistant"),
                     system_message |-> LastOfType(evs, "system")]
            alone == select_content(last, stderr)
        IN  /\ scan.result_message = last.result_message
            /\ scan.last_assistant_message = last.last_assistant_message
            /\ scan.system_message = last.system_message
            /\ pc = "done" =>
                  /\ response.kind = alone.kind
                  /\ response.content = alone.content
                  /\ Returned =>
                        Harvested(response.metadata)
                            = Harvested(alone.metadata)

C3_Witness ==
    /\ QwenDone
    /\ Len(scan.events) = 3
    /\ HasResultText(scan.events[1])
    /\ TypeIs(scan.events[2], "assistant")
    /\ HasAssistantText(scan.events[2])
    /\ TypeIs(scan.events[3], "result")
    /\ ~HasResultText(scan.events[3])
    /\ Returned
    /\ response.content = _extract_assistant_text(scan.events[2]).v

\* C4: parse ends by returning a response or by raising ParserError,
\* whatever the types of the decoded fields.
C4_OnlyParserError ==
    QwenDone => response.kind \in {"return", "ParserError"}

\* C5: no returned response has empty content.
C5_ContentNonEmpty ==
    /\ Returned => Len(response.content) > 0
    /\ agent_output.kind = "AgentOutput" =>
          Len(agent_output.parsed.content) > 0

\* C6: CopilotPlaintextParser.parse by cases on the trimmed stdout and
\* stderr.
C6_CopilotCases ==
    CopilotDone =>
        LET so == Trimmed(stdout)
            se == Trimmed(stderr)
            md == response.metadata
        IN  IF Len(so) > 0
            THEN /\ Returned
                 /\ response.content = so
                 /\ ("stderr" \in DOMAIN md) <=> (Len(se) > 0)
                 /\ Len(se) > 0 => md["stderr"] = JStr(se)
            ELSE IF Len(se) > 0
            THEN /\ Returned
                 /\ response.content = CopilotPlaceholder
                 /\ "stderr" \in DOMAIN md
                 /\ md["stderr"] = JStr(se)
            ELSE response.kind = "ParserError"

C6_Witness ==
    /\ CopilotDone /\ Returned
    /\ Len(Trimmed(stdout)) > 0 /\ stdout # Trimmed(stdout)
    /\ Len(Trimmed(stderr)) > 0 /\ stderr # Trimmed(stderr)

\* stdout and stderr, the non-empty ones, joined by a newline, trimmed
Combined ==
    Trimmed(IF Len(stdout) > 0 /\ Len(stderr) > 0
            THEN stdout \o <<"\n">> \o stderr
            ELSE IF Len(stdout) > 0 THEN stdout ELSE stderr)

\* C7: recovery returns nothing exactly when the combined text is empty
\* after trimming; otherwise the content is the combined text and the
\* metadata records the recovery and the return code.
C7_Recovery ==
    RecoverDone =>
        /\ (agent_output.kind = "None") <=> (Len(Combined) = 0)
        /\ Len(Combined) > 0 =>
              /\ agent_output.kind = "AgentOutput"
              /\ agent_output.parsed.content = Combined
              /\ DOMAIN agent_output.parsed.metadata =
                    {"cli_error_recovered", "cli_returncode"}
              /\ agent_output.parsed.metadata["cli_error_recovered"]
                    = JBool(TRUE)
              /\ agent_output.parsed.metadata["cli_returncode"]
                    = JInt(returncode)
              /\ Len(stdout) = 0 =>
                    agent_output.parsed.content = Trimmed(stderr)

C7_Witness ==
    /\ RecoverDone /\ agent_output.kind = "AgentOutput"
    /\ Len(Trimmed(stdout)) > 0 /\ Len(Trimmed(stderr)) > 0
    /\ stdout # Trimmed(stdout)

\* C8: a recovered result names the configured parser, which was never
\* invoked, and carries the values handed in unchanged; recovery raises
\* nothing.
C8_RecoveryFrame ==
    RecoverDone =>
        /\ parse_calls = 0
        /\ response = Pending
        /\ agent_output.kind \in {"None", "AgentOutput"}
        /\ agent_output.kind = "AgentOutput" =>
              /\ agent_output.parser_name = parser_name
              /\ agent_output.returncode = returncode
              /\ agent_output.stdout = stdout
              /\ agent_output.stderr = stderr
              /\ agent_output.sanitized_command = sanitized_command
              /\ agent_output.duration_seconds = duration_seconds
              /\ agent_output.output_file_content = output_file_content

C8_Witness ==
    /\ RecoverDone /\ agent_output.kind = "AgentOutput"
    /\ parser_name = "qwen_stream_json"
    /\ stdout # Trimmed(stdout) /\ stderr # Trimmed(stderr)
    /\ output_file_content # None

\* C9: parse raises ParserError exactly when stdout is empty after
\* trimming, or there is no result text, no assistant text, no recorded
\* error and stderr is empty after trimming; a stream of system events
\* only fails with empty stderr and returns the placeholder otherwise.
OnlySystemEvents(evs) ==
    /\ Len(evs) > 0
    /\ Len(evs) = Len(stripped_lines(stdout))
    /\ \A i \in 1..Len(evs) : TypeIs(evs[i], "system")

C9_ParserErrorIff ==
    QwenDone =>
        LET evs == DecodedEvents
            res == LastOfType(evs, "result")
        IN
        /\ (response.kind = "ParserError") <=>
              \/ Len(Trimmed(stdout)) = 0
              \/ /\ Len(Trimmed(stdout)) > 0
                 /\ ~HasResultText(res)
                 /\ ~HasAssistantText(LastOfType(evs, "assistant"))
                 /\ Len(RecordedErrors(res)) = 0
                 /\ Len(Trimmed(stderr)) = 0
        /\ OnlySystemEvents(evs) =>
              IF Len(Trimmed(stderr)) = 0
              THEN response.kind = "ParserError"
              ELSE /\ Returned
                   /\ response.content = QwenPlaceholder
                   /\ response.metadata["stderr"] = JStr(Trimmed(stderr))

C9_Witness ==
    /\ QwenDone /\ response.kind = "ParserError"
    /\ Len(Trimmed(stdout)) > 0
    /\ IsDict(LastOfType(DecodedEvents, "result"))
    /\ IsDict(LastOfType(DecodedEvents, "assistant"))
    /\ stderr # Trimmed(stderr)

\* The stream's only result event is an error without result text whose
\* error object carries a message, a string
OnlyResultIsError(evs) ==
    LET res == LastOfType(evs, "result")
    IN  /\ Cardinality({i \in 1..Len(evs) : TypeIs(evs[i], "result")}) = 1
        /\ Has(res, "is_error")
        /\ Get(res, "is_error") = JBool(TRUE)
        /\ ~HasResultText(res)
        /\ IsDict(Get(res, "error"))
        /\ Has(Get(res, "error"), "message")
        /\ IsStr(Get(Get(res, "error"), "message"))

\* The response carries the error of the result event res
ErrorReported(res) ==
    /\ Returned
    /\ response.content = Get(Get(res, "error"), "message").v
    /\ response.metadata["is_error"] = JBool(TRUE)
    /\ response.metadata["error"] = Get(res, "error")

\* C10: whenever the only result event is such an error, the content is
\* the error message, is_error is true in the metadata and the error
\* object is stored whole.
C10_ErrorContent ==
    (QwenDone /\ Len(Trimmed(stdout)) > 0) =>
        LET evs == DecodedEvents
        IN  OnlyResultIsError(evs) => ErrorReported(LastOfType(evs, "result"))

\* C10 amended: the same, for a stream whose last assistant event
\* yields no text.
C10_ErrorContentNoAssistant ==
    (QwenDone /\ Len(Trimmed(stdout)) > 0) =>
        LET evs == DecodedEvents
        IN  (OnlyResultIsError(evs)
                /\ ~HasAssistantText(LastOfType(evs, "assistant")))
            => ErrorReported(LastOfType(evs, "result"))

C10_Witness ==
    /\ QwenDone /\ OnlyResultIsError(DecodedEvents)
    /\ IsDict(LastOfType(DecodedEvents, "assistant"))
    /\ ~HasAssistantText(LastOfType(DecodedEvents, "assistant"))
    /\ Returned
    /\ response.content = <<"boom">>

====
